---- MODULE Spec2Model ----
(***************************************************************************)
(* Task tracker (Flask): the task life cycle of app/tasks.py, the status   *)
(* resolver and deadline calculator of app/utils.py, and the streak and    *)
(* achievement bookkeeping of app/models.py and app/utils.py.              *)
(*                                                                         *)
(* Time is counted in ticks since the epoch of the model.  A second is     *)
(* TicksPerSecond ticks (datetime values carry sub-second precision) and a *)
(* calendar day is SecondsPerDay seconds (a scaled-down day).              *)
(*                                                                         *)
(* Spec          the web application: requests handled one after another   *)
(*               against the committed store, and the clock.               *)
(* SpecEngine    the streak/achievement engine called directly             *)
(*               (User.update_streak, check_achievements), day by day.     *)
(* SpecResolver  update_task_status called on one task row with any        *)
(*               creation, deadline and completion instants.               *)
(* SpecDeadline  calculate_deadline called with any window kind, custom    *)
(*               count and timezone name.                                  *)
(* SpecDashboard the home view on top of the streak engine.                *)
(* SpecRace      a status refresh interleaved with complete requests.      *)
(* SpecStats     the statistics functions of app/utils.py and the trend    *)
(*               endpoint of app/dashboard.py, called against a tasks      *)
(*               table of two or three rows.                               *)
(***************************************************************************)
EXTENDS Integers, Sequences, FiniteSets, TLC

VARIABLES
    now,        \* datetime.utcnow(), in ticks
    tasks,      \* the tasks table: a sequence of rows, the index is Task.id
    users,      \* the users table: user id -> gamification columns
    earned,     \* the user_achievements table: user id -> achievement id -> number of rows
    called,     \* history: user id -> the day and the flag of the user's last direct
                \* update_streak call
    last,       \* history: the last request or call, its inputs and its outcome
    pre,        \* history: the rows the last request or call started from
    session     \* the task rows a status refresh in flight has loaded and not
                \* yet committed

vars == <<now, tasks, users, earned, called, last, pre, session>>

----------------------------------------------------------------------------
(* Bounds of the model *)

TicksPerSecond == 2
SecondsPerDay == 2
MaxNow == 6
MaxTasks == 1
MaxCustomDays == 1
MaxDeadlineDays == 5
MaxDay == 4
DaysPerMonth == 2
MonthsPerYear == 2
MaxStatsDays == 2
MaxTrendDays == 2

(* NULL of a nullable column *)
None == -1

Day == SecondsPerDay * TicksPerSecond

Users == {1, 2}

WindowTypes == {"daily", "weekly", "monthly", "custom"}

(* form.window_value: Optional(), NumberRange(1, 365) *)
WindowValues == {None} \cup (1..MaxCustomDays)

(* datetime.date() of an instant, as a day number *)
DateOf(t) == t \div Day

----------------------------------------------------------------------------
(* app/utils.py: calculate_deadline.  A timezone is its UTC offset in      *)
(* ticks; pytz.timezone('UTC') is offset 0.                                *)

TzOffset(tz) ==
    CASE tz = "UTC" -> 0
      [] tz = "east" -> TicksPerSecond
      [] tz = "west" -> 0 - TicksPerSecond

(* the names pytz.timezone accepts *)
KnownTimeZones == {"UTC", "east", "west"}

(* pytz.timezone(timezone) raises UnknownTimeZoneError *)
calculate_deadline_raises(tz) == tz \notin KnownTimeZones

(* the end of the UTC day of creation, taken as a local time *)
calculate_deadline_utc_date(created_at, window_type, custom_days, tz) ==
    IF window_type = "daily"
    THEN DateOf(created_at) * Day + (Day - TicksPerSecond) - TzOffset(tz)
    ELSE IF window_type = "weekly" THEN created_at + 7 * Day
    ELSE IF window_type = "monthly" THEN created_at + 30 * Day
    ELSE IF window_type = "custom" /\ custom_days # None /\ custom_days # 0
         THEN created_at + custom_days * Day
    ELSE created_at + 1 * Day

(* a month of 31 days, and no default for a custom window without a count *)
calculate_deadline_calendar(created_at, window_type, custom_days, tz) ==
    IF window_type = "daily"
    THEN LET local_created == created_at + TzOffset(tz)
             deadline_local == DateOf(local_created) * Day + (Day - TicksPerSecond)
         IN  deadline_local - TzOffset(tz)
    ELSE IF window_type = "weekly" THEN created_at + 7 * Day
    ELSE IF window_type = "monthly" THEN created_at + 31 * Day
    ELSE IF window_type = "custom"
         THEN IF custom_days # None THEN created_at + custom_days * Day ELSE created_at
    ELSE created_at + 1 * Day

calculate_deadline(created_at, window_type, custom_days, tz) ==
    IF window_type = "daily"
    THEN LET local_created == created_at + TzOffset(tz)
             deadline_local == DateOf(local_created) * Day + (Day - TicksPerSecond)
         IN  deadline_local - TzOffset(tz)
    ELSE IF window_type = "weekly" THEN created_at + 7 * Day
    ELSE IF window_type = "monthly" THEN created_at + 30 * Day
    ELSE IF window_type = "custom" /\ custom_days # None /\ custom_days # 0
         THEN created_at + custom_days * Day
    ELSE created_at + 1 * Day

----------------------------------------------------------------------------
(* app/models.py: Task *)

is_completed(task) == task.completed_at # None

is_overdue(task, t) ==
    IF is_completed(task) THEN FALSE ELSE t > task.deadline

(* less than or exactly 20% of the window remaining *)
is_at_risk_inclusive(task, t) ==
    IF is_completed(task) \/ is_overdue(task, t) THEN FALSE
    ELSE LET total_time == task.deadline - task.created_at
             remaining_time == task.deadline - t
         IN  IF total_time > 0 THEN 5 * remaining_time <= total_time
             ELSE 5 * remaining_time >= total_time

(* remaining_time / total_time raises ZeroDivisionError when the window    *)
(* has no duration and the task is neither completed nor overdue           *)
is_at_risk_raises(task, t) ==
    /\ ~is_completed(task)
    /\ ~is_overdue(task, t)
    /\ task.deadline - task.created_at = 0

(* (remaining_time / total_time) < 0.2, both in ticks *)
is_at_risk(task, t) ==
    IF is_completed(task) \/ is_overdue(task, t) THEN FALSE
    ELSE LET total_time == task.deadline - task.created_at
             remaining_time == task.deadline - t
         IN  IF total_time > 0 THEN 5 * remaining_time < total_time
             ELSE 5 * remaining_time > total_time

(* update_task_status without its completed_at guard *)
update_task_status_unguarded(task, t) ==
    IF t > task.deadline THEN [task EXCEPT !.status = "overdue"]
    ELSE IF is_at_risk(task, t) THEN [task EXCEPT !.status = "at_risk"]
    ELSE [task EXCEPT !.status = "active"]

(* overdue from the deadline instant on *)
update_task_status_inclusive(task, t) ==
    IF task.completed_at # None THEN task
    ELSE IF t >= task.deadline THEN [task EXCEPT !.status = "overdue"]
    ELSE IF is_at_risk(task, t) THEN [task EXCEPT !.status = "at_risk"]
    ELSE [task EXCEPT !.status = "active"]

(* the status of a completed task is written back as 'completed' *)
update_task_status_marks_completed(task, t) ==
    IF task.completed_at # None THEN [task EXCEPT !.status = "completed"]
    ELSE IF t > task.deadline THEN [task EXCEPT !.status = "overdue"]
    ELSE IF is_at_risk(task, t) THEN [task EXCEPT !.status = "at_risk"]
    ELSE [task EXCEPT !.status = "active"]

(* app/utils.py: update_task_status; the task as the call leaves it *)
update_task_status(task, t) ==
    IF task.completed_at # None THEN task
    ELSE IF t > task.deadline THEN [task EXCEPT !.status = "overdue"]
    ELSE IF is_at_risk(task, t) THEN [task EXCEPT !.status = "at_risk"]
    ELSE [task EXCEPT !.status = "active"]

(* the status string update_task_status returns *)
update_task_status_result(task, t) ==
    IF task.completed_at # None THEN "completed" ELSE update_task_status(task, t).status

(* the rows refresh_user_task_statuses selects *)
RefreshSelected(user_id) ==
    {i \in DOMAIN tasks : tasks[i].user_id = user_id /\ tasks[i].completed_at = None}

refresh_user_task_statuses(user_id, t) ==
    [i \in DOMAIN tasks |->
        IF i \in RefreshSelected(user_id) THEN update_task_status(tasks[i], t)
        ELSE tasks[i]]

RefreshRaises(user_id, t) ==
    \E i \in RefreshSelected(user_id) :
        ~(t > tasks[i].deadline) /\ is_at_risk_raises(tasks[i], t)

----------------------------------------------------------------------------
(* app/models.py: User.update_streak; today is datetime.utcnow().date() *)

(* the streak grows whatever the gap *)
streak_on_completion_no_restart(user, yesterday) == user.current_streak + 1

(* "Continuing streak" / "Starting new streak": the new current_streak *)
streak_on_completion(user, yesterday) ==
    IF user.last_activity_date = yesterday THEN user.current_streak + 1 ELSE 1

(* longest_streak is never raised *)
(* longest_streak follows current_streak down as well as up *)
longest_on_completion_tracks_current(user, streak) == streak

longest_on_completion_stale(user, streak) == user.longest_streak

(* "Update longest streak": the new longest_streak *)
longest_on_completion(user, streak) ==
    IF streak > user.longest_streak THEN streak ELSE user.longest_streak

(* the streak is broken whether or not a freeze token is left *)
streak_on_miss_no_freeze(user, yesterday) ==
    IF user.last_activity_date # None /\ user.last_activity_date < yesterday
    THEN [user EXCEPT !.current_streak = 0]
    ELSE user

(* a token is taken even when none is left *)
streak_on_miss_overdraw(user, yesterday) ==
    IF user.last_activity_date # None /\ user.last_activity_date < yesterday
    THEN IF user.streak_freeze_count >= 0
         THEN [user EXCEPT !.streak_freeze_count = @ - 1]
         ELSE [user EXCEPT !.current_streak = 0]
    ELSE user

(* "No tasks completed - check if streak should be broken" *)
streak_on_miss(user, yesterday) ==
    IF user.last_activity_date # None /\ user.last_activity_date < yesterday
    THEN IF user.streak_freeze_count > 0
         THEN [user EXCEPT !.streak_freeze_count = @ - 1]
         ELSE [user EXCEPT !.current_streak = 0]
    ELSE user

update_streak(user, today, task_completed_today) ==
    IF user.last_activity_date = today THEN user
    ELSE LET yesterday == today - 1 IN
         IF task_completed_today
         THEN LET streak == streak_on_completion(user, yesterday)
              IN  [user EXCEPT !.current_streak = streak,
                               !.last_activity_date = today,
                               !.longest_streak = longest_on_completion(user, streak)]
         ELSE streak_on_miss(user, yesterday)

(* columns of a freshly registered user (the column defaults) *)
NewUser ==
    [current_streak |-> 0, longest_streak |-> 0, last_activity_date |-> None,
     total_tasks_completed |-> 0, streak_freeze_count |-> 2, timezone |-> "UTC"]

----------------------------------------------------------------------------
(* app/models.py: Achievement rows (reference data).  Rows 1-3 are rows of *)
(* create_default_achievements; rows 4-6 exercise the other requirement    *)
(* kinds check_achievements reads.                                         *)

Achievements ==
    <<[requirement_type |-> "total_tasks", requirement_value |-> 1],
      [requirement_type |-> "streak", requirement_value |-> 1],
      [requirement_type |-> "streak", requirement_value |-> 3],
      [requirement_type |-> "daily_goal", requirement_value |-> 1],
      [requirement_type |-> "longest_streak", requirement_value |-> 2],
      [requirement_type |-> "tasks_completed", requirement_value |-> 1]>>

AchievementIds == DOMAIN Achievements

(* User.get_today_progress()['completed'] *)
CompletedToday(user_id, today) ==
    Cardinality({i \in DOMAIN tasks :
        /\ tasks[i].user_id = user_id
        /\ tasks[i].completed_at # None
        /\ DateOf(tasks[i].completed_at) = today})

(* every achievement is evaluated, earned or not *)
available_achievements_all(rows) == AchievementIds

(* Achievement.query.filter(~Achievement.id.in_(earned_achievement_ids)) *)
available_achievements(rows) == {a \in AchievementIds : rows[a] = 0}

(* the thresholds are compared with > *)
RequirementMet_strict(a, user, user_id, today) ==
    LET kind == Achievements[a].requirement_type
        value == Achievements[a].requirement_value
    IN  IF kind = "streak" THEN user.current_streak > value
        ELSE IF kind = "total_tasks" THEN user.total_tasks_completed > value
        ELSE IF kind = "daily_goal" THEN CompletedToday(user_id, today) > value
        ELSE IF kind = "longest_streak" THEN user.longest_streak > value
        ELSE FALSE

(* the test of one achievement in the loop of check_achievements *)
RequirementMet(a, user, user_id, today) ==
    LET kind == Achievements[a].requirement_type
        value == Achievements[a].requirement_value
    IN  IF kind = "streak" THEN user.current_streak >= value
        ELSE IF kind = "total_tasks" THEN user.total_tasks_completed >= value
        ELSE IF kind = "daily_goal" THEN CompletedToday(user_id, today) >= value
        ELSE IF kind = "longest_streak" THEN user.longest_streak >= value
        ELSE FALSE

(* app/utils.py: check_achievements; the ids of new_achievements *)
check_achievements(user, user_id, rows, today) ==
    {a \in available_achievements(rows) : RequirementMet(a, user, user_id, today)}

----------------------------------------------------------------------------
(* app/utils.py: statistics.  Percentages are kept in tenths of a percent  *)
(* (33.3 is 333).  The calendar of the model has MonthsPerYear months of   *)
(* DaysPerMonth days.                                                      *)

(* datetime.combine(date, time.min) and datetime.combine(date, time.max) *)
DayStart(date) == date * Day

DayEnd(date) == date * Day + (Day - 1)

(* datetime(year, month, 1) *)
MonthStart(year, month) == ((year * MonthsPerYear + (month - 1)) * DaysPerMonth) * Day

(* round(num / den * 100, 1), in tenths; the bounds of the model give no   *)
(* quotient that lies halfway between two tenths                           *)
round_rate(num, den) == (2000 * num + den) \div (2 * den)

NoStats ==
    [total |-> None, completed |-> None, on_time |-> None, late |-> None,
     overdue |-> None, completion_rate |-> None, on_time_rate |-> None]

(* the period ends before period_end and overdue is the stored label *)
get_completion_rate_by_label(user_id, period_start, period_end) ==
    LET selected == {i \in DOMAIN tasks :
                        /\ tasks[i].user_id = user_id
                        /\ tasks[i].deadline >= period_start
                        /\ tasks[i].deadline < period_end
                        /\ tasks[i].status # "archived"}
        total == Cardinality(selected)
        completed == Cardinality({i \in selected : is_completed(tasks[i])})
        on_time == Cardinality({i \in selected : tasks[i].completion_quality = "on_time"})
        late == Cardinality({i \in selected : tasks[i].completion_quality = "late"})
        overdue == Cardinality({i \in selected : tasks[i].status = "overdue"})
    IN  IF total = 0
        THEN [total |-> 0, completed |-> 0, on_time |-> 0, late |-> 0, overdue |-> 0,
              completion_rate |-> 0, on_time_rate |-> 0]
        ELSE [total |-> total, completed |-> completed, on_time |-> on_time,
              late |-> late, overdue |-> overdue,
              completion_rate |-> round_rate(completed, total),
              on_time_rate |-> round_rate(on_time, total)]

(* the rates are computed without the test for an empty selection; a       *)
(* division by zero is given as None                                       *)
get_completion_rate_unguarded(user_id, period_start, period_end) ==
    LET selected == {i \in DOMAIN tasks :
                        /\ tasks[i].user_id = user_id
                        /\ tasks[i].deadline >= period_start
                        /\ tasks[i].deadline <= period_end
                        /\ tasks[i].status # "archived"}
        total == Cardinality(selected)
        completed == Cardinality({i \in selected : is_completed(tasks[i])})
        on_time == Cardinality({i \in selected : tasks[i].completion_quality = "on_time"})
        late == Cardinality({i \in selected : tasks[i].completion_quality = "late"})
        overdue == Cardinality({i \in selected : is_overdue(tasks[i], now)})
    IN  [total |-> total, completed |-> completed, on_time |-> on_time,
         late |-> late, overdue |-> overdue,
         completion_rate |-> IF total = 0 THEN None ELSE (1000 * completed) \div total,
         on_time_rate |-> IF total = 0 THEN None ELSE (1000 * on_time) \div total]

(* get_completion_rate(db.session, user_id, period_start, period_end) *)
get_completion_rate(user_id, period_start, period_end) ==
    LET selected == {i \in DOMAIN tasks :
                        /\ tasks[i].user_id = user_id
                        /\ tasks[i].deadline >= period_start
                        /\ tasks[i].deadline <= period_end
                        /\ tasks[i].status # "archived"}
        total == Cardinality(selected)
        completed == Cardinality({i \in selected : is_completed(tasks[i])})
        on_time == Cardinality({i \in selected : tasks[i].completion_quality = "on_time"})
        late == Cardinality({i \in selected : tasks[i].completion_quality = "late"})
        overdue == Cardinality({i \in selected : is_overdue(tasks[i], now)})
    IN  IF total = 0
        THEN [total |-> 0, completed |-> 0, on_time |-> 0, late |-> 0, overdue |-> 0,
              completion_rate |-> 0, on_time_rate |-> 0]
        ELSE [total |-> total, completed |-> completed, on_time |-> on_time,
              late |-> late, overdue |-> overdue,
              completion_rate |-> round_rate(completed, total),
              on_time_rate |-> round_rate(on_time, total)]

(* the interval get_daily_stats passes on *)
daily_period(date) == <<DayStart(date), DayEnd(date)>>

(* the interval get_weekly_stats passes on *)
weekly_period(start_date) == <<DayStart(start_date), DayEnd(start_date + 6)>>

(* the interval get_monthly_stats passes on *)
monthly_period(year, month) ==
    <<MonthStart(year, month),
      IF month = MonthsPerYear
      THEN MonthStart(year + 1, 1) - TicksPerSecond
      ELSE MonthStart(year, month + 1) - TicksPerSecond>>

(* date.strftime('%a'), as the number of the day of the week *)
Weekday(date) == date % 7

(* get_weekly_trend(db.session, user_id, days) *)
get_weekly_trend(user_id, days) ==
    LET end_date == DateOf(now)
    IN  [k \in 1..days |->
            LET date == end_date - (days - k)
            IN  [date |-> Weekday(date),
                 created |-> Cardinality({i \in DOMAIN tasks :
                                 /\ tasks[i].user_id = user_id
                                 /\ tasks[i].created_at >= DayStart(date)
                                 /\ tasks[i].created_at <= DayEnd(date)}),
                 completed |-> Cardinality({i \in DOMAIN tasks :
                                 /\ tasks[i].user_id = user_id
                                 /\ tasks[i].completed_at # None
                                 /\ tasks[i].completed_at >= DayStart(date)
                                 /\ tasks[i].completed_at <= DayEnd(date)})]]

----------------------------------------------------------------------------
(* History of the last request *)

NoQuality == "null"

NoRow ==
    [user_id |-> 0, created_at |-> None, window_type |-> "none", window_value |-> None,
     deadline |-> None, completed_at |-> None, status |-> "none",
     completion_quality |-> NoQuality]

(* op: the handler; by: current_user.id; id: task_id; outcome: how the     *)
(* request ended; flag: task_completed_today; new: the ids returned by     *)
(* check_achievements; shown: the user row as the request rendered it;     *)
(* result: the value a direct call returned; at: the clock's reading when  *)
(* a statistics call ran; arg: its arguments; period: the interval it      *)
(* selects deadlines from; stats, trend: what it returned                  *)
Call(op, by, id, outcome) == [op |-> op, by |-> by, id |-> id, outcome |-> outcome,
                              flag |-> FALSE, new |-> {}, shown |-> NewUser,
                              result |-> "none", at |-> None, arg |-> <<>>,
                              period |-> <<None, None>>,
                              stats |-> NoStats, trend |-> <<>>]

NeverCalled == [day |-> None, flag |-> FALSE]

(* task, user, rows: the task row, the user row and the user's achievement *)
(* rows before the call; repeat: update_streak had already been called for *)
(* the user on that day, with the same task_completed_today                *)
NoPre == [task |-> NoRow, user |-> NewUser, rows |-> [a \in AchievementIds |-> 0],
          repeat |-> FALSE]

Row(id) == IF id \in DOMAIN tasks THEN tasks[id] ELSE NoRow

(* no refresh is between its query and its commit *)
NoSession == [by |-> 0, loaded |-> <<>>]

----------------------------------------------------------------------------
(* The web application *)

Init ==
    /\ now = 0
    /\ tasks = <<>>
    /\ users = [u \in Users |-> NewUser]
    /\ earned = [u \in Users |-> [a \in AchievementIds |-> 0]]
    /\ called = [u \in Users |-> NeverCalled]
    /\ last = Call("init", 0, 0, "ok")
    /\ pre = NoPre
    /\ session = NoSession

(* the clock *)
Tick ==
    /\ now < MaxNow
    /\ now' = now + 1
    /\ last' = Call("tick", 0, 0, "ok")
    /\ pre' = NoPre
    /\ UNCHANGED <<tasks, users, earned, called, session>>

(* Task(...) of tasks.create; created_at is the column default, taken     *)
(* when the row is inserted                                                *)
NewTask(u, created_at, window_type, window_value, deadline) ==
    [user_id |-> u,
     created_at |-> created_at,
     window_type |-> window_type,
     window_value |-> IF window_type = "custom" THEN window_value ELSE None,
     deadline |-> deadline,
     completed_at |-> None,
     status |-> "active",
     completion_quality |-> NoQuality]

(* tasks.create: POST of a valid form; the deadline is computed from one   *)
(* reading of the clock and created_at is a later one                      *)
create(u, window_type, window_value) ==
    /\ Len(tasks) < MaxTasks
    /\ \E d \in {0, 1} :
          /\ now + d <= MaxNow
          /\ LET deadline == calculate_deadline(now, window_type, window_value,
                                                users[u].timezone)
                 task == NewTask(u, now + d, window_type, window_value, deadline)
             IN  /\ tasks' = Append(tasks, task)
                 /\ now' = now + d
                 /\ last' = Call("create", u, Len(tasks) + 1, "ok")
    /\ pre' = NoPre
    /\ UNCHANGED <<users, earned, called, session>>

Denied(op, u, id) ==
    /\ tasks[id].user_id # u
    /\ last' = Call(op, u, id, "denied")
    /\ pre' = [NoPre EXCEPT !.task = tasks[id]]
    /\ UNCHANGED <<now, tasks, users, earned, called, session>>

(* the request raised: the session is rolled back *)
Raised(op, u, id) ==
    /\ last' = Call(op, u, id, "error")
    /\ pre' = [NoPre EXCEPT !.task = Row(id)]
    /\ UNCHANGED <<now, tasks, users, earned, called, session>>

Committed(op, u, id, task) ==
    /\ tasks' = [tasks EXCEPT ![id] = task]
    /\ last' = Call(op, u, id, "ok")
    /\ pre' = [NoPre EXCEPT !.task = tasks[id]]
    /\ UNCHANGED <<now, users, earned, called, session>>

(* tasks.detail *)
detail(u, id) ==
    \/ Denied("detail", u, id)
    \/ /\ tasks[id].user_id = u
       /\ IF is_at_risk_raises(tasks[id], now)
          THEN Raised("detail", u, id)
          ELSE Committed("detail", u, id, update_task_status(tasks[id], now))

(* the task as tasks.edit leaves it on a valid POST *)
edited(task, window_type, window_value, tz) ==
    IF window_type # task.window_type
       \/ (window_type = "custom" /\ window_value # task.window_value)
    THEN LET value == IF window_type = "custom" THEN window_value ELSE None
         IN  [task EXCEPT !.window_type = window_type,
                          !.window_value = value,
                          !.deadline = calculate_deadline(task.created_at, window_type,
                                                          value, tz)]
    ELSE task

(* tasks.edit *)
edit(u, id, window_type, window_value) ==
    \/ Denied("edit", u, id)
    \/ /\ tasks[id].user_id = u
       /\ Committed("edit", u, id,
                    edited(tasks[id], window_type, window_value, users[u].timezone))

(* the task as tasks.complete leaves it *)
completed(task, t) ==
    [task EXCEPT !.completed_at = t,
                 !.status = "completed",
                 !.completion_quality = IF t <= task.deadline THEN "on_time" ELSE "late"]

(* a completed task is completed again *)
complete_again(u, id) ==
    \/ Denied("complete", u, id)
    \/ /\ tasks[id].user_id = u
       /\ Committed("complete", u, id, completed(tasks[id], now))

(* tasks.complete *)
complete(u, id) ==
    \/ Denied("complete", u, id)
    \/ /\ tasks[id].user_id = u
       /\ IF is_completed(tasks[id])
          THEN /\ last' = Call("complete", u, id, "rejected")
               /\ pre' = [NoPre EXCEPT !.task = tasks[id]]
               /\ UNCHANGED <<now, tasks, users, earned, called, session>>
          ELSE Committed("complete", u, id, completed(tasks[id], now))

(* the completion timestamp is cleared and the quality is kept *)
uncompleted_keeps_quality(task, t) ==
    update_task_status([task EXCEPT !.completed_at = None], t)

(* the task as tasks.uncomplete leaves it *)
uncompleted(task, t) ==
    update_task_status([task EXCEPT !.completed_at = None,
                                    !.completion_quality = NoQuality], t)

(* tasks.uncomplete *)
uncomplete(u, id) ==
    \/ Denied("uncomplete", u, id)
    \/ /\ tasks[id].user_id = u
       /\ IF ~is_completed(tasks[id])
          THEN /\ last' = Call("uncomplete", u, id, "rejected")
               /\ pre' = [NoPre EXCEPT !.task = tasks[id]]
               /\ UNCHANGED <<now, tasks, users, earned, called, session>>
          ELSE IF is_at_risk_raises([tasks[id] EXCEPT !.completed_at = None], now)
          THEN Raised("uncomplete", u, id)
          ELSE Committed("uncomplete", u, id, uncompleted(tasks[id], now))

(* the task as tasks.delete leaves it *)
archived(task) == [task EXCEPT !.status = "archived"]

(* the archive is written without the ownership test *)
delete_unchecked(u, id) == Committed("delete", u, id, archived(tasks[id]))

(* tasks.delete *)
delete(u, id) ==
    \/ Denied("delete", u, id)
    \/ /\ tasks[id].user_id = u
       /\ Committed("delete", u, id, archived(tasks[id]))

(* tasks.list_tasks, dashboard.daily, dashboard.weekly, dashboard.monthly: *)
(* the status refresh every list view starts with                          *)
list_tasks(u) ==
    IF RefreshRaises(u, now)
    THEN Raised("list_tasks", u, 0)
    ELSE /\ tasks' = refresh_user_task_statuses(u, now)
         /\ last' = Call("list_tasks", u, 0, "ok")
         /\ pre' = NoPre
         /\ UNCHANGED <<now, users, earned, called, session>>

(* dashboard.home: the refresh is committed; update_streak then changes    *)
(* current_user in the session and the view commits nothing after it       *)
home(u) ==
    IF RefreshRaises(u, now)
    THEN Raised("home", u, 0)
    ELSE /\ tasks' = refresh_user_task_statuses(u, now)
         /\ last' = [Call("home", u, 0, "ok") EXCEPT
                        !.shown = update_streak(users[u], DateOf(now), FALSE)]
         /\ pre' = [NoPre EXCEPT !.user = users[u]]
         /\ UNCHANGED <<now, users, earned, called, session>>

Next ==
    \/ Tick
    \/ \E u \in Users, w \in WindowTypes, v \in WindowValues : create(u, w, v)
    \/ \E u \in Users, id \in DOMAIN tasks : detail(u, id)
    \/ \E u \in Users, id \in DOMAIN tasks, w \in WindowTypes, v \in WindowValues :
          edit(u, id, w, v)
    \/ \E u \in Users, id \in DOMAIN tasks : complete(u, id)
    \/ \E u \in Users, id \in DOMAIN tasks : uncomplete(u, id)
    \/ \E u \in Users, id \in DOMAIN tasks : delete(u, id)
    \/ \E u \in Users : list_tasks(u)
    \/ \E u \in Users : home(u)

Spec == Init /\ [][Next]_vars

----------------------------------------------------------------------------
(* The streak/achievement engine, called directly for one user, day by day *)

EngineUsers == {1}

MaxTotal == 1

(* the tasks table the engine runs against: empty, or one task of the user *)
(* completed on day 0 or on day 1                                          *)
EngineTasks ==
    {<<>>} \cup
    {<<completed(NewTask(1, 0, "weekly", None,
                         calculate_deadline(0, "weekly", None, "UTC")), c)>> :
        c \in {0, Day}}

InitEngine ==
    /\ now = 0
    /\ tasks \in EngineTasks
    /\ \E n \in 0..MaxTotal :
          users = [u \in Users |-> [NewUser EXCEPT !.total_tasks_completed = n]]
    /\ earned = [u \in Users |-> [a \in AchievementIds |-> 0]]
    /\ called = [u \in Users |-> NeverCalled]
    /\ last = Call("init", 0, 0, "ok")
    /\ pre = NoPre
    /\ session = NoSession

(* midnight UTC passes *)
NextDay ==
    /\ DateOf(now) < MaxDay
    /\ now' = now + Day
    /\ last' = Call("next_day", 0, 0, "ok")
    /\ pre' = NoPre
    /\ UNCHANGED <<tasks, users, earned, called, session>>

(* user.update_streak(task_completed_today), kept *)
update_streak_call(u, task_completed_today) ==
    /\ users' = [users EXCEPT ![u] = update_streak(@, DateOf(now), task_completed_today)]
    /\ called' = [called EXCEPT ![u] = [day |-> DateOf(now), flag |-> task_completed_today]]
    /\ last' = [Call("update_streak", u, 0, "ok") EXCEPT !.flag = task_completed_today]
    /\ pre' = [NoPre EXCEPT !.user = users[u], !.repeat = (called[u] = [day |-> DateOf(now),
                                                      flag |-> task_completed_today])]
    /\ UNCHANGED <<now, tasks, earned, session>>

(* check_achievements(user): a UserAchievement row is added for every id   *)
(* returned; earned is the table as the session reads it back              *)
check_achievements_call(u) ==
    LET new == check_achievements(users[u], u, earned[u], DateOf(now))
    IN  /\ earned' = [earned EXCEPT ![u] =
                         [a \in AchievementIds |-> IF a \in new THEN @[a] + 1 ELSE @[a]]]
        /\ last' = [Call("check_achievements", u, 0, "ok") EXCEPT !.new = new]
        /\ pre' = [NoPre EXCEPT !.user = users[u], !.rows = earned[u]]
        /\ UNCHANGED <<now, tasks, users, called, session>>

NextEngine ==
    \/ NextDay
    \/ \E u \in EngineUsers, flag \in BOOLEAN : update_streak_call(u, flag)
    \/ \E u \in EngineUsers : check_achievements_call(u)

SpecEngine == InitEngine /\ [][NextEngine]_vars

----------------------------------------------------------------------------
(* The status resolver, called directly on one task row.  A daily window   *)
(* created at any time of the day gives any window length, from none (or   *)
(* less: see C16) to a whole day, so the row's creation and deadline       *)
(* instants are drawn freely; the clock starts where the row's last        *)
(* timestamp was taken.                                                    *)

Instants == 0..MaxNow

ResolverRow(created_at, deadline, completed_at, status) ==
    [NewTask(1, created_at, "daily", None, deadline) EXCEPT
        !.completed_at = completed_at,
        !.status = status,
        !.completion_quality = IF completed_at = None THEN NoQuality
                               ELSE IF completed_at <= deadline THEN "on_time"
                               ELSE "late"]

InitResolver ==
    /\ \E c \in Instants, d \in Instants, done \in {None} \cup Instants :
          /\ done # None => done >= c
          /\ \E st \in (IF done = None
                         THEN {"active", "at_risk", "overdue", "archived"}
                         ELSE {"completed", "archived"}) :
                tasks = <<ResolverRow(c, d, done, st)>>
          /\ now = IF done = None THEN c ELSE done
    /\ users = [u \in Users |-> NewUser]
    /\ earned = [u \in Users |-> [a \in AchievementIds |-> 0]]
    /\ called = [u \in Users |-> NeverCalled]
    /\ last = Call("init", 0, 0, "ok")
    /\ pre = NoPre
    /\ session = NoSession

(* update_task_status(task), and the commit of its caller *)
update_task_status_call(id) ==
    IF is_at_risk_raises(tasks[id], now)
    THEN Raised("update_task_status", tasks[id].user_id, id)
    ELSE /\ tasks' = [tasks EXCEPT ![id] = update_task_status(@, now)]
         /\ last' = [Call("update_task_status", tasks[id].user_id, id, "ok") EXCEPT
                        !.result = update_task_status_result(tasks[id], now)]
         /\ pre' = [NoPre EXCEPT !.task = tasks[id]]
         /\ UNCHANGED <<now, users, earned, called, session>>

NextResolver ==
    \/ Tick
    \/ \E id \in DOMAIN tasks : update_task_status_call(id)

SpecResolver == InitResolver /\ [][NextResolver]_vars

----------------------------------------------------------------------------
(* calculate_deadline, called directly with the clock's reading, any       *)
(* window kind, any custom count and the caller's time zone name; the      *)
(* deadline is kept in a task row.                                         *)

TimeZoneNames == KnownTimeZones \cup {"Mars/Olympus"}

DeadlineWindowTypes == WindowTypes \cup {"yearly"}

DeadlineWindowValues == {None} \cup (1..MaxDeadlineDays)

InitDeadline ==
    /\ now = 0
    /\ tasks = <<>>
    /\ \E tz \in TimeZoneNames :
          users = [u \in Users |-> IF u \in EngineUsers
                                   THEN [NewUser EXCEPT !.timezone = tz]
                                   ELSE NewUser]
    /\ earned = [u \in Users |-> [a \in AchievementIds |-> 0]]
    /\ called = [u \in Users |-> NeverCalled]
    /\ last = Call("init", 0, 0, "ok")
    /\ pre = NoPre
    /\ session = NoSession

(* calculate_deadline(datetime.utcnow(), window_type, custom_days, timezone) *)
calculate_deadline_call(u, window_type, custom_days) ==
    /\ IF calculate_deadline_raises(users[u].timezone)
       THEN /\ last' = Call("calculate_deadline", u, 0, "error")
            /\ UNCHANGED tasks
       ELSE /\ tasks' = <<NewTask(u, now, window_type, custom_days,
                                  calculate_deadline(now, window_type, custom_days,
                                                     users[u].timezone))>>
            /\ last' = Call("calculate_deadline", u, 1, "ok")
    /\ pre' = NoPre
    /\ UNCHANGED <<now, users, earned, called, session>>

NextDeadline ==
    \/ Tick
    \/ \E u \in EngineUsers, w \in DeadlineWindowTypes, v \in DeadlineWindowValues :
          calculate_deadline_call(u, w, v)

SpecDeadline == InitDeadline /\ [][NextDeadline]_vars

----------------------------------------------------------------------------
(* The statistics functions, called for one user against a tasks table of  *)
(* two or three rows.  A row is a task as create stores it on the first    *)
(* day (at the start of the day or in its last half second; a daily or a   *)
(* custom window), then left open, or completed at once or after the       *)
(* deadline, then possibly archived; an open row carries the label 'active' *)
(* or 'overdue' whatever the clock says, since labels are only refreshed   *)
(* by the list views.                                                      *)

StatsUsers == {1}

StatsWindows == {<<"daily", None>>} \cup {<<"custom", n>> : n \in 1..MaxStatsDays}

StatsRow(u, created_at, window, done, label) ==
    LET task == NewTask(u, created_at, window[1], window[2],
                        calculate_deadline(created_at, window[1], window[2], "UTC"))
        kept == IF done = "open" THEN task
                ELSE IF done = "at_once" THEN completed(task, created_at)
                ELSE completed(task, task.deadline + 1)
    IN  IF label = "kept" THEN kept ELSE [kept EXCEPT !.status = label]

StatsLabels(done) ==
    IF done = "open" THEN {"kept", "overdue", "archived"} ELSE {"kept", "archived"}

FirstRows ==
    {StatsRow(1, c, w, done[1], done[2]) :
        c \in {0, Day - 1}, w \in StatsWindows,
        done \in {d \in {"open", "at_once", "after"} \X {"kept", "overdue", "archived"} :
                    d[2] \in StatsLabels(d[1])}}

SecondRows ==
    {StatsRow(u, 0, <<"custom", 1>>, done, "kept") :
        u \in Users, done \in {"open", "at_once"}}

ThirdRow == StatsRow(1, 0, <<"custom", 1>>, "open", "kept")

(* the latest timestamp of the table: the clock cannot be behind it *)
RECURSIVE LatestOf(_)
LatestOf(rows) ==
    IF rows = <<>> THEN 0
    ELSE LET t == Head(rows)
             m == IF t.completed_at > t.created_at THEN t.completed_at ELSE t.created_at
             r == LatestOf(Tail(rows))
         IN  IF m > r THEN m ELSE r

InitStats ==
    /\ \E r1 \in FirstRows, r2 \in SecondRows :
          tasks \in {<<r1, r2>>, <<r1, r2, ThirdRow>>}
    /\ now = LatestOf(tasks)
    /\ users = [u \in Users |-> NewUser]
    /\ earned = [u \in Users |-> [a \in AchievementIds |-> 0]]
    /\ called = [u \in Users |-> NeverCalled]
    /\ last = Call("init", 0, 0, "ok")
    /\ pre = NoPre
    /\ session = NoSession

(* a statistics function returns get_completion_rate of the period *)
Returned(op, u, arg, period) ==
    /\ last' = [Call(op, u, 0, "ok") EXCEPT
                   !.at = now, !.arg = arg, !.period = period,
                   !.stats = get_completion_rate(u, period[1], period[2])]
    /\ pre' = NoPre
    /\ UNCHANGED <<now, tasks, users, earned, called, session>>

get_completion_rate_call(u, period_start, period_end) ==
    Returned("get_completion_rate", u, <<period_start, period_end>>,
             <<period_start, period_end>>)

(* get_daily_stats(db.session, user_id, date) *)
get_daily_stats(u, date) ==
    Returned("get_daily_stats", u, <<date>>,
             daily_period(IF date = None THEN DateOf(now) ELSE date))

(* get_weekly_stats(db.session, user_id, start_date) *)
get_weekly_stats(u, start_date) ==
    Returned("get_weekly_stats", u, <<start_date>>,
             weekly_period(IF start_date = None THEN DateOf(now) - 6 ELSE start_date))

(* now.year and now.month *)
YearOf(t) == (DateOf(t) \div DaysPerMonth) \div MonthsPerYear

MonthOf(t) == ((DateOf(t) \div DaysPerMonth) % MonthsPerYear) + 1

(* get_monthly_stats(db.session, user_id, year, month) *)
get_monthly_stats(u, year, month) ==
    LET y == IF year = None \/ month = None THEN YearOf(now) ELSE year
        m == IF year = None \/ month = None THEN MonthOf(now) ELSE month
    IN  Returned("get_monthly_stats", u, <<y, m>>, monthly_period(y, m))

(* get_weekly_trend(db.session, user_id, days), as the weekly and monthly  *)
(* views call it                                                           *)
get_weekly_trend_call(u, days) ==
    /\ last' = [Call("get_weekly_trend", u, 0, "ok") EXCEPT
                   !.at = now, !.arg = <<days>>,
                   !.trend = get_weekly_trend(u, days)]
    /\ pre' = NoPre
    /\ UNCHANGED <<now, tasks, users, earned, called, session>>

(* dashboard.api_trend_data: 'request' is not imported by app/dashboard.py, *)
(* so request.args raises NameError before get_weekly_trend is called      *)
api_trend_data(u, days) ==
    /\ last' = [Call("api_trend_data", u, 0, "error") EXCEPT
                   !.at = now, !.arg = <<days>>]
    /\ pre' = NoPre
    /\ UNCHANGED <<now, tasks, users, earned, called, session>>

NextStats ==
    \/ Tick
    \/ \E u \in StatsUsers, a \in 0..MaxNow, b \in 0..MaxNow :
          a <= b /\ get_completion_rate_call(u, a, b)
    \/ \E u \in StatsUsers, date \in {None} \cup (0..MaxStatsDays) : get_daily_stats(u, date)
    \/ \E u \in StatsUsers, start_date \in {None, 0} : get_weekly_stats(u, start_date)
    \/ \E u \in StatsUsers, year \in {None, 0}, month \in {None} \cup (1..MonthsPerYear) :
          get_monthly_stats(u, year, month)
    \/ \E u \in StatsUsers, days \in 1..MaxTrendDays : get_weekly_trend_call(u, days)
    \/ \E u \in StatsUsers, days \in 1..MaxTrendDays : api_trend_data(u, days)

SpecStats == InitStats /\ [][NextStats]_vars

----------------------------------------------------------------------------
(* The dashboard home view requested by a user whose streak columns are in *)
(* any state the streak engine can leave them in                           *)

NextDashboard ==
    \/ NextEngine
    \/ \E u \in EngineUsers : home(u)

SpecDashboard == InitEngine /\ [][NextDashboard]_vars

----------------------------------------------------------------------------
(* A status refresh and a complete request served at the same time (the    *)
(* server handles requests in threads, each with its own session).  The    *)
(* refresh is two steps: its query loads the user's non-completed tasks    *)
(* into the session; its loop and commit then resolve the loaded objects   *)
(* and write the status column of those whose status changed.  No row is   *)
(* locked or re-read between the two steps.                                *)

InitRace ==
    /\ now = 0
    /\ \E w \in StatsWindows :
          tasks = <<NewTask(1, 0, w[1], w[2], calculate_deadline(0, w[1], w[2], "UTC"))>>
    /\ users = [u \in Users |-> NewUser]
    /\ earned = [u \in Users |-> [a \in AchievementIds |-> 0]]
    /\ called = [u \in Users |-> NeverCalled]
    /\ last = Call("init", 0, 0, "ok")
    /\ pre = NoPre
    /\ session = NoSession

(* refresh_user_task_statuses: Task.query.filter_by(user_id, completed_at=None).all() *)
refresh_query(u) ==
    /\ session.by = 0
    /\ session' = [by |-> u, loaded |-> [i \in RefreshSelected(u) |-> tasks[i]]]
    /\ last' = Call("refresh_query", u, 0, "ok")
    /\ pre' = NoPre
    /\ UNCHANGED <<now, tasks, users, earned, called>>

(* the row after the flush of a loaded object: an UPDATE of the status     *)
(* column when the resolver changed it, nothing otherwise                  *)
flushed(row, loaded, t) ==
    IF update_task_status(loaded, t).status # loaded.status
    THEN [row EXCEPT !.status = update_task_status(loaded, t).status]
    ELSE row

(* refresh_user_task_statuses: the loop over the loaded tasks and          *)
(* db_session.commit()                                                     *)
refresh_commit ==
    /\ session.by # 0
    /\ IF \E i \in DOMAIN session.loaded :
             /\ ~(now > session.loaded[i].deadline)
             /\ is_at_risk_raises(session.loaded[i], now)
       THEN /\ last' = Call("refresh_commit", session.by, 0, "error")
            /\ UNCHANGED tasks
       ELSE /\ tasks' = [i \in DOMAIN tasks |->
                            IF i \in DOMAIN session.loaded
                            THEN flushed(tasks[i], session.loaded[i], now)
                            ELSE tasks[i]]
            /\ last' = Call("refresh_commit", session.by, 0, "ok")
    /\ session' = NoSession
    /\ pre' = NoPre
    /\ UNCHANGED <<now, users, earned, called>>

NextRace ==
    \/ Tick
    \/ \E u \in Users : refresh_query(u)
    \/ refresh_commit
    \/ \E u \in Users, id \in DOMAIN tasks : complete(u, id)

SpecRace == InitRace /\ [][NextRace]_vars

----------------------------------------------------------------------------
(* Task life cycle (Spec) *)

(* C1: in every reachable state a task has status 'completed' if and only  *)
(* if its completed_at is set.                                             *)
C1_StatusCompletedIffCompletedAt ==
    \A i \in DOMAIN tasks :
        (tasks[i].status = "completed") <=> (tasks[i].completed_at # None)

(* C2: archived is terminal: no step changes the status of an archived     *)
(* task.                                                                   *)
C2_ArchivedIsTerminal ==
    [][\A i \in DOMAIN tasks :
          tasks[i].status = "archived" => tasks'[i].status = "archived"]_vars

C9_CompleteRunsStreakEngine ==
    (last.op = "complete" /\ last.outcome = "ok")
        => /\ users[last.by].last_activity_date = DateOf(now)
           /\ users[last.by].current_streak >= 1
           /\ users[last.by].total_tasks_completed >= 1

----------------------------------------------------------------------------
(* Streak/achievement engine (SpecEngine) *)

StreakCall == last.op = "update_streak"

(* the day of the last call: update_streak does not move the clock *)
Today == DateOf(now)

StreakColumnsKept(user, old) ==
    /\ user.current_streak = old.current_streak
    /\ user.longest_streak = old.longest_streak
    /\ user.last_activity_date = old.last_activity_date
    /\ user.streak_freeze_count = old.streak_freeze_count

(* C4: a second update_streak call on the same UTC day, with the same      *)
(* completion-evidence flag as the first, leaves current_streak,           *)
(* longest_streak, last_activity_date and streak_freeze_count as the first *)
(* call left them.                                                         *)
C4_StreakIdempotentPerDay ==
    (StreakCall /\ pre.repeat) => StreakColumnsKept(users[last.by], pre.user)

Stale(user) ==
    user.last_activity_date # None /\ user.last_activity_date < Today - 1

(* C5: no evidence, last activity more than one day ago, a freeze token    *)
(* left: the token count drops by 1 and the other streak columns stay.     *)
C5_SkipWithFreezeToken ==
    (StreakCall /\ ~last.flag /\ Stale(pre.user) /\ pre.user.streak_freeze_count > 0)
        => /\ users[last.by].streak_freeze_count = pre.user.streak_freeze_count - 1
           /\ users[last.by].current_streak = pre.user.current_streak
           /\ users[last.by].longest_streak = pre.user.longest_streak
           /\ users[last.by].last_activity_date = pre.user.last_activity_date

C5_Witness ==
    /\ StreakCall /\ ~last.flag /\ Stale(pre.user)
    /\ pre.user.streak_freeze_count > 0
    /\ pre.user.current_streak > 0
    /\ users[last.by].streak_freeze_count < pre.user.streak_freeze_count

(* C6: no evidence, last activity more than one day ago, no token left:    *)
(* current_streak becomes 0 and the token count stays 0; no evidence and   *)
(* last activity today, yesterday or unset: nothing changes.               *)
C6_SkipWithoutToken ==
    /\ (StreakCall /\ ~last.flag /\ Stale(pre.user) /\ pre.user.streak_freeze_count = 0)
         => /\ users[last.by].current_streak = 0
            /\ users[last.by].streak_freeze_count = 0
    /\ (StreakCall /\ ~last.flag
          /\ pre.user.last_activity_date \in {Today, Today - 1, None})
         => users[last.by] = pre.user
    /\ \A u \in Users : users[u].streak_freeze_count >= 0

C6_Witness ==
    /\ StreakCall /\ ~last.flag /\ Stale(pre.user)
    /\ pre.user.streak_freeze_count = 0
    /\ pre.user.current_streak > 0
    /\ users[last.by].current_streak = 0

(* C7: evidence and last activity exactly yesterday: current_streak grows  *)
(* by 1, last_activity_date becomes today, longest_streak becomes the      *)
(* larger of its old value and the new current_streak.                     *)
C7_ConsecutiveDay ==
    (StreakCall /\ last.flag /\ pre.user.last_activity_date = Today - 1)
        => /\ users[last.by].current_streak = pre.user.current_streak + 1
           /\ users[last.by].last_activity_date = Today
           /\ users[last.by].longest_streak =
                IF pre.user.longest_streak >= pre.user.current_streak + 1
                THEN pre.user.longest_streak
                ELSE pre.user.current_streak + 1

(* the scenario of the specification: 2/2 becomes 3/3 *)
C7_Witness ==
    /\ StreakCall /\ last.flag /\ pre.user.last_activity_date = Today - 1
    /\ pre.user.current_streak = 2 /\ pre.user.longest_streak = 2
    /\ users[last.by].current_streak = 3 /\ users[last.by].longest_streak = 3

(* C8: evidence and last activity neither today nor yesterday (or unset):  *)
(* current_streak becomes 1 whatever it was and no token is consumed.      *)
C8_CompletionAfterGap ==
    (StreakCall /\ last.flag
      /\ pre.user.last_activity_date \notin {Today, Today - 1})
        => /\ users[last.by].current_streak = 1
           /\ users[last.by].streak_freeze_count = pre.user.streak_freeze_count

C8_Witness ==
    /\ StreakCall /\ last.flag
    /\ Stale(pre.user)
    /\ pre.user.current_streak > 1
    /\ pre.user.streak_freeze_count > 0
    /\ users[last.by].current_streak = 1

(* C10: the store holds at most one UserAchievement row per (user,         *)
(* achievement), and check_achievements returns no achievement the user    *)
(* had already earned.                                                     *)
C10_AchievementEarnedOnce ==
    /\ \A u \in Users : \A a \in AchievementIds : earned[u][a] <= 1
    /\ last.op = "check_achievements"
         => \A a \in last.new : pre.rows[a] = 0 /\ earned[last.by][a] = 1

(* a repeated call: an achievement earned by an earlier call still meets   *)
(* its requirement and is not returned again                               *)
C10_Witness ==
    /\ last.op = "check_achievements"
    /\ \E a \in AchievementIds :
          /\ pre.rows[a] = 1
          /\ RequirementMet(a, users[last.by], last.by, Today)
          /\ a \notin last.new
          /\ earned[last.by][a] = 1

(* the counter an achievement of a known requirement kind is tested        *)
(* against, for the user of the last call                                  *)
CounterOf(kind) ==
    CASE kind = "streak" -> users[last.by].current_streak
      [] kind = "total_tasks" -> users[last.by].total_tasks_completed
      [] kind = "daily_goal" -> CompletedToday(last.by, Today)
      [] kind = "longest_streak" -> users[last.by].longest_streak

KnownKinds == {"streak", "total_tasks", "daily_goal", "longest_streak"}

(* C11: one check_achievements call awards and returns exactly the         *)
(* not-yet-earned achievements whose requirement (counter >= value, by     *)
(* kind) is met at the call; an achievement of any other kind is never     *)
(* awarded.                                                                *)
C11_AwardsExactlyMetUnearned ==
    /\ last.op = "check_achievements"
         => /\ last.new =
                 {a \in AchievementIds :
                     /\ pre.rows[a] = 0
                     /\ Achievements[a].requirement_type \in KnownKinds
                     /\ CounterOf(Achievements[a].requirement_type)
                           >= Achievements[a].requirement_value}
            /\ \A a \in AchievementIds :
                  earned[last.by][a] = pre.rows[a] + (IF a \in last.new THEN 1 ELSE 0)
    /\ \A u \in Users : \A a \in AchievementIds :
          Achievements[a].requirement_type \notin KnownKinds => earned[u][a] = 0

(* a call that awards a daily_goal and a total_tasks achievement, leaves   *)
(* out a streak achievement whose threshold is not reached, and leaves out *)
(* the achievement of an unknown kind whose threshold is reached           *)
C11_Witness ==
    /\ last.op = "check_achievements"
    /\ \E a \in last.new : Achievements[a].requirement_type = "daily_goal"
    /\ \E a \in last.new : Achievements[a].requirement_type = "total_tasks"
    /\ \E a \in AchievementIds \ last.new :
          /\ Achievements[a].requirement_type = "streak"
          /\ pre.rows[a] = 0
    /\ \E a \in AchievementIds \ last.new :
          /\ Achievements[a].requirement_type \notin KnownKinds
          /\ users[last.by].total_tasks_completed >= Achievements[a].requirement_value

----------------------------------------------------------------------------
(* Status resolver (SpecResolver) *)

ResolverCall == last.op = "update_task_status"

(* C12: on a non-completed task update_task_status sets and returns        *)
(* 'overdue' exactly when now > deadline; at now = deadline it does not.   *)
C12_OverdueIffPastDeadline ==
    (ResolverCall /\ pre.task.completed_at = None)
        => ((/\ last.outcome = "ok"
             /\ tasks[last.id].status = "overdue"
             /\ last.result = "overdue")
            <=> now > pre.task.deadline)

(* resolved at the deadline instant itself *)
C12_Witness ==
    /\ ResolverCall /\ pre.task.completed_at = None
    /\ last.outcome = "ok"
    /\ now = pre.task.deadline
    /\ pre.task.status = "overdue"
    /\ tasks[last.id].status # "overdue"

C14_ZeroDurationWindowResolves ==
    (/\ ResolverCall /\ pre.task.completed_at = None
     /\ pre.task.deadline = pre.task.created_at)
        => /\ last.outcome = "ok"
           /\ tasks[last.id].status \in {"at_risk", "overdue"}

(* C15: on a completed task update_task_status returns 'completed' and     *)
(* leaves every field, the stored status included, as it was; on any task  *)
(* it writes only the status, and never 'archived' or 'completed'.         *)
C15_ResolverLeavesCompletedTaskAlone ==
    /\ (ResolverCall /\ pre.task.completed_at # None)
         => /\ last.outcome = "ok"
            /\ last.result = "completed"
            /\ tasks[last.id] = pre.task
    /\ (ResolverCall /\ pre.task.completed_at = None /\ last.outcome = "ok")
         => /\ tasks[last.id].status \in {"active", "at_risk", "overdue"}
            /\ tasks[last.id] = [pre.task EXCEPT !.status = tasks[last.id].status]
    /\ (ResolverCall /\ last.outcome = "error") => tasks[last.id] = pre.task

(* a completed task past its deadline whose stored status is not           *)
(* 'completed' has been resolved                                           *)
C15_Witness ==
    /\ ResolverCall /\ pre.task.completed_at # None
    /\ now > pre.task.deadline
    /\ pre.task.status = "archived"
    /\ last.result = "completed"

----------------------------------------------------------------------------
(* Deadlines (SpecDeadline) *)

DeadlineCall == last.op = "calculate_deadline"

DeadlineReturned == DeadlineCall /\ last.outcome = "ok"

(* C16: for every window kind, creation instant and time zone the deadline *)
(* calculate_deadline returns is not before the creation instant.          *)
C16_DeadlineNotBeforeCreation ==
    DeadlineReturned => tasks[1].deadline >= tasks[1].created_at

(* C17: a daily deadline, taken to the user's local time, has the local    *)
(* calendar date of the creation instant and the clock time 23:59:59.      *)
C17_DailyEndsLocalDay ==
    (DeadlineReturned /\ tasks[1].window_type = "daily")
        => LET off == TzOffset(users[last.by].timezone)
           IN  /\ DateOf(tasks[1].deadline + off) = DateOf(tasks[1].created_at + off)
               /\ (tasks[1].deadline + off) % Day = (SecondsPerDay - 1) * TicksPerSecond

(* created where the local date is not the UTC date *)
C17_Witness ==
    /\ DeadlineReturned /\ tasks[1].window_type = "daily"
    /\ TzOffset(users[last.by].timezone) # 0
    /\ DateOf(tasks[1].created_at + TzOffset(users[last.by].timezone))
          # DateOf(tasks[1].created_at)

(* C18: weekly is creation + 7 days, monthly + 30 days, custom with a      *)
(* count + that many days, an unrecognized kind or custom without a count  *)
(* + 1 day.                                                                *)
C18_FixedLengthWindows ==
    (DeadlineReturned /\ tasks[1].window_type # "daily")
        => tasks[1].deadline - tasks[1].created_at =
             Day * (CASE tasks[1].window_type = "weekly" -> 7
                      [] tasks[1].window_type = "monthly" -> 30
                      [] tasks[1].window_type = "custom" /\ tasks[1].window_value # None
                           -> tasks[1].window_value
                      [] OTHER -> 1)

(* custom 5 at the start of a day gives the start of the fifth day after *)
C18_Witness ==
    /\ DeadlineReturned
    /\ tasks[1].window_type = "custom" /\ tasks[1].window_value = 5
    /\ tasks[1].created_at % Day = 0
    /\ tasks[1].deadline = tasks[1].created_at + 5 * Day

(* C19: calculate_deadline returns a deadline for every creation instant,  *)
(* window kind, custom count and time zone name, known or not.             *)
C19_DeadlineNeverRaises ==
    DeadlineCall => last.outcome = "ok"

----------------------------------------------------------------------------
(* Completion quality (Spec) *)

(* C20: in every state reached by create, edit, complete, uncomplete and   *)
(* delete, completion_quality is set exactly when completed_at is set.     *)
C20_QualityIffCompleted ==
    \A id \in DOMAIN tasks :
        (tasks[id].completion_quality # NoQuality) <=> (tasks[id].completed_at # None)

(* a task with a quality has been taken back to not completed *)
C20_Witness ==
    /\ last.op = "uncomplete" /\ last.outcome = "ok"
    /\ pre.task.completion_quality = "late"
    /\ tasks[last.id].completed_at = None
    /\ tasks[last.id].completion_quality = NoQuality

----------------------------------------------------------------------------
(* Ownership (Spec) *)

OwnedOps == {"detail", "edit", "complete", "uncomplete", "delete"}

(* C21: a detail, edit, complete, uncomplete or delete request by a user   *)
(* who does not own the task ends in access denied and changes no field of *)
(* the task.                                                               *)
C21_NonOwnerDenied ==
    (last.op \in OwnedOps /\ pre.task.user_id # last.by)
        => /\ last.outcome = "denied"
           /\ tasks[last.id] = pre.task

(* another user's open task was asked to be archived *)
C21_Witness ==
    /\ last.op = "delete" /\ last.outcome = "denied"
    /\ pre.task.user_id # last.by
    /\ pre.task.status = "active"
    /\ tasks[last.id].status = "active"

----------------------------------------------------------------------------
(* Statistics (SpecStats) *)

StatsOps == {"get_completion_rate", "get_daily_stats", "get_weekly_stats",
             "get_monthly_stats"}

StatsCall == last.op \in StatsOps /\ last.outcome = "ok"

(* the user's non-archived tasks whose deadline lies in the closed period *)
InPeriod ==
    {i \in DOMAIN tasks :
        /\ tasks[i].user_id = last.by
        /\ tasks[i].status # "archived"
        /\ last.period[1] <= tasks[i].deadline
        /\ tasks[i].deadline <= last.period[2]}

(* C22: get_completion_rate counts exactly the user's tasks with status    *)
(* other than 'archived' and start <= deadline <= end; 'completed' is the  *)
(* number of them with completed_at set and 'overdue' the number with      *)
(* completed_at unset and now > deadline, whatever the stored label.       *)
C22_CountsSelectedTasks ==
    StatsCall
        => /\ last.stats.total = Cardinality(InPeriod)
           /\ last.stats.completed =
                Cardinality({i \in InPeriod : tasks[i].completed_at # None})
           /\ last.stats.overdue =
                Cardinality({i \in InPeriod : /\ tasks[i].completed_at = None
                                              /\ last.at > tasks[i].deadline})

(* a deadline on the last instant of the period, of an open task past its  *)
(* deadline that is still labelled 'active', and another user's task in    *)
(* the period                                                              *)
C22_Witness ==
    /\ last.op = "get_completion_rate" /\ last.outcome = "ok"
    /\ \E i \in InPeriod :
          /\ tasks[i].deadline = last.period[2]
          /\ tasks[i].completed_at = None
          /\ tasks[i].status = "active"
          /\ last.at > tasks[i].deadline
    /\ \E i \in DOMAIN tasks :
          /\ tasks[i].user_id # last.by
          /\ last.period[1] <= tasks[i].deadline
          /\ tasks[i].deadline <= last.period[2]
    /\ last.stats.overdue >= 1
    /\ last.stats.total = Cardinality(InPeriod)

(* C23: with no task in the period every field of the result is 0 and the  *)
(* call raises nothing; with total > 0 completion_rate lies in [0, 100]    *)
(* and is completed / total * 100 rounded to one decimal place.            *)
C23_RateRoundedToOneDecimal ==
    /\ last.op \in StatsOps => last.outcome = "ok"
    /\ (StatsCall /\ Cardinality(InPeriod) = 0)
         => last.stats = [total |-> 0, completed |-> 0, on_time |-> 0, late |-> 0,
                          overdue |-> 0, completion_rate |-> 0, on_time_rate |-> 0]
    /\ (StatsCall /\ Cardinality(InPeriod) > 0)
         => LET total == last.stats.total
                exact == 1000 * last.stats.completed
                rate == last.stats.completion_rate
            IN  /\ total = Cardinality(InPeriod)
                /\ rate >= 0 /\ rate <= 1000
                /\ 2 * (rate * total - exact) <= total
                /\ 2 * (exact - rate * total) <= total

(* C23 as stated: with total > 0 completion_rate is exactly                *)
(* completed / total * 100.                                                *)
C23_RateIsExactQuotient ==
    /\ last.op \in StatsOps => last.outcome = "ok"
    /\ (StatsCall /\ Cardinality(InPeriod) = 0)
         => last.stats = [total |-> 0, completed |-> 0, on_time |-> 0, late |-> 0,
                          overdue |-> 0, completion_rate |-> 0, on_time_rate |-> 0]
    /\ (StatsCall /\ Cardinality(InPeriod) > 0)
         => /\ last.stats.completion_rate >= 0
            /\ last.stats.completion_rate <= 1000
            /\ last.stats.completion_rate * last.stats.total = 1000 * last.stats.completed

(* two of three tasks completed: 66.7 *)
C23_Witness ==
    /\ StatsCall
    /\ last.stats.total = 3 /\ last.stats.completed = 2
    /\ last.stats.completion_rate = 667

(* the returned series has one entry per day of the trailing last.arg[1]   *)
(* days, oldest first, and entry k counts the user's tasks created         *)
(* (completed) on that day                                                 *)
TrendAligned ==
    LET days == last.arg[1]
        today == DateOf(last.at)
    IN  /\ Len(last.trend) = days
        /\ \A k \in 1..days :
              LET date == today - (days - k)
              IN  /\ last.trend[k].date = Weekday(date)
                  /\ last.trend[k].created =
                       Cardinality({i \in DOMAIN tasks :
                           /\ tasks[i].user_id = last.by
                           /\ DateOf(tasks[i].created_at) = date})
                  /\ last.trend[k].completed =
                       Cardinality({i \in DOMAIN tasks :
                           /\ tasks[i].user_id = last.by
                           /\ tasks[i].completed_at # None
                           /\ DateOf(tasks[i].completed_at) = date})

(* C24: a request to the trend endpoint with days = N returns labels,      *)
(* created and completed series of length N, aligned by index, entry i     *)
(* counting the user's tasks created (completed) on the i-th of the        *)
(* trailing N UTC days.                                                    *)
C24_TrendEndpointReturnsSeries ==
    last.op = "api_trend_data" => (last.outcome = "ok" /\ TrendAligned)

(* the first instant of the month after (year, month) *)
NextMonthStart(year, month) == MonthStart(year, month) + DaysPerMonth * Day

(* C30: get_monthly_stats counts every non-archived task of the user whose *)
(* deadline lies from the first instant of the month up to, but not        *)
(* including, the first instant of the next month.                         *)
C30_MonthCoversEveryInstant ==
    (last.op = "get_monthly_stats" /\ last.outcome = "ok")
        => last.stats.total =
             Cardinality({i \in DOMAIN tasks :
                 /\ tasks[i].user_id = last.by
                 /\ tasks[i].status # "archived"
                 /\ tasks[i].deadline >= MonthStart(last.arg[1], last.arg[2])
                 /\ tasks[i].deadline < NextMonthStart(last.arg[1], last.arg[2])})

----------------------------------------------------------------------------
(* Completion quality and the deadline (Spec) *)

(* C25: in every reachable state a completed task has completion_quality   *)
(* 'on_time' exactly when completed_at <= its current deadline and 'late'  *)
(* otherwise, also after edit has changed the window and the deadline.     *)
C25_QualityMatchesDeadline ==
    \A id \in DOMAIN tasks :
        tasks[id].completed_at # None
            => tasks[id].completion_quality =
                 IF tasks[id].completed_at <= tasks[id].deadline THEN "on_time" ELSE "late"

----------------------------------------------------------------------------
(* Streak records (SpecEngine) *)

(* C26: from a new user, after any update_streak calls with any flags over *)
(* any days, current_streak <= longest_streak, and no call lowers          *)
(* longest_streak.                                                         *)
C26_LongestBoundsCurrent ==
    /\ \A u \in Users : users[u].current_streak <= users[u].longest_streak
    /\ StreakCall => users[last.by].longest_streak >= pre.user.longest_streak

(* a streak of two or more has been restarted at 1 after a gap *)
C26_Witness ==
    /\ StreakCall /\ last.flag
    /\ pre.user.current_streak >= 2
    /\ users[last.by].current_streak = 1
    /\ users[last.by].longest_streak = pre.user.longest_streak
    /\ users[last.by].longest_streak >= 2

----------------------------------------------------------------------------
(* Refresh against complete (SpecRace) *)

(* C27: when a status refresh interleaves with a complete request on one   *)
(* of the tasks it read, the task never ends with completed_at set and a   *)
(* status other than 'completed'.                                          *)
C27_RefreshKeepsCompletedStatus ==
    \A id \in DOMAIN tasks :
        tasks[id].completed_at # None => tasks[id].status = "completed"

----------------------------------------------------------------------------
(* The home view and the streak (SpecDashboard) *)

(* C28: a streak change made while the home view is rendered (a freeze     *)
(* token taken, or current_streak reset) is committed within that request: *)
(* the store holds the user row as the request left it.                    *)
C28_HomeCommitsStreakChange ==
    (last.op = "home" /\ last.outcome = "ok")
        => /\ users[last.by].streak_freeze_count = last.shown.streak_freeze_count
           /\ users[last.by].current_streak = last.shown.current_streak

----------------------------------------------------------------------------
(* Rejected requests (Spec) *)

(* C29: complete on a task that is already completed ends in an error and  *)
(* leaves completed_at, completion_quality and status as they were;        *)
(* uncomplete on a task that is not completed ends in an error and changes *)
(* nothing.                                                                *)
C29_RepeatedRequestRejected ==
    /\ (last.op = "complete" /\ pre.task.user_id = last.by
           /\ pre.task.completed_at # None)
         => /\ last.outcome = "rejected"
            /\ tasks[last.id] = pre.task
    /\ (last.op = "uncomplete" /\ pre.task.user_id = last.by
           /\ pre.task.completed_at = None)
         => /\ last.outcome = "rejected"
            /\ tasks[last.id] = pre.task

(* the owner asked to complete a task completed at an earlier instant *)
C29_Witness ==
    /\ last.op = "complete" /\ last.outcome = "rejected"
    /\ pre.task.user_id = last.by
    /\ pre.task.completed_at # None
    /\ pre.task.completed_at < now
    /\ tasks[last.id].completed_at = pre.task.completed_at

====
